---------------------------- MODULE Spec2Model ----------------------------
(***************************************************************************)
(* Hand-controlled colour wheel: the wheel state (ColorWheelState), the    *)
(* per-frame controller (HandColorWheel), the gesture geometry             *)
(* (GestureDetector) and the selected-colour computation (UIRenderer).     *)
(*                                                                         *)
(* NUMBERS.  rotation_angle, spin_velocity and the hand angles are Python  *)
(* floats.  A float is modelled as a binary floating-point number with a   *)
(* SignificandBits-bit significand and FractionBits fraction bits at the   *)
(* bottom of its range (the format of an IEEE-754 double, with fewer       *)
(* bits).  The integer k stands for the number k / Scale; every arithmetic *)
(* operation computes the exact result and rounds it to the nearest        *)
(* representable number, ties to the even significand.  Python's float %   *)
(* is modelled as CPython computes it: fmod, then one rounded addition of  *)
(* the divisor when the remainder is negative.                             *)
(***************************************************************************)
EXTENDS Integers, Sequences, FiniteSets, TLC

\* A field that may be None holds a set: empty for None, {v} for the value v.
None == {}
Some(v) == {v}
The(o) == CHOOSE v \in o : TRUE

--------------------------------------------------------------------------
(* Floating point.                                                         *)

SignificandBits == 7
FractionBits == 8

RECURSIVE Pow2(_)
Pow2(n) == IF n = 0 THEN 1 ELSE 2 * Pow2(n - 1)

Scale == Pow2(FractionBits)

\* The float that stands for the integer n (n degrees, n colours, ...).
Deg(n) == n * Scale

Abs(x) == IF x < 0 THEN -x ELSE x

\* The spacing of the representable numbers around magnitude m (m >= 0, in
\* units of 1/Scale): 1 below 2^SignificandBits, doubling with each binade.
RECURSIVE UlpFrom(_, _, _)
UlpFrom(m, top, u) == IF m < top THEN u ELSE UlpFrom(m, 2 * top, 2 * u)

Ulp(m) == UlpFrom(m, Pow2(SignificandBits), 1)

\* The representable number nearest to the rational n / d (d > 0), ties to
\* the even significand.
RoundRat(n, d) ==
    LET u == Ulp(Abs(n) \div d)
        q == d * u
        k == n \div q
        r == n - k * q
    IN  IF 2 * r < q THEN k * u
        ELSE IF 2 * r > q THEN (k + 1) * u
        ELSE IF k % 2 = 0 THEN k * u ELSE (k + 1) * u

Rnd(x) == RoundRat(x, 1)

FAdd(a, b) == Rnd(a + b)
FSub(a, b) == Rnd(a - b)
\* a * (n / d), the factor n / d being a float constant
FMulRat(a, n, d) == RoundRat(a * n, d)
FDiv(a, b) == RoundRat(a * Scale, b)

\* C's fmod: the remainder with the sign of the dividend, exact.
Fmod(x, w) == IF x >= 0 THEN x % w ELSE -((-x) % w)

\* Python's x % w on floats, w > 0 (CPython float_rem).
PyMod(x, w) ==
    LET m == Fmod(x, w)
    IN  IF m < 0 THEN FAdd(m, w) ELSE m

\* Python's int() of a float: truncation toward zero.
PyInt(x) == IF x >= 0 THEN x \div Scale ELSE -((-x) \div Scale)


--------------------------------------------------------------------------
(* config.py is not among the source files; its values are taken from the  *)
(* specification and from the texts the application prints.                *)

DEFAULT_NUM_COLORS == 6
MIN_COLORS == 3
MAX_COLORS == 20
\* degrees per frame
MIN_SPIN_SPEED == 4
MAX_SPIN_SPEED == 8
\* SPIN_DECELERATION = SpinDecelNum / SpinDecelDen, strictly between 0 and 1
SpinDecelNum == 1
SpinDecelDen == 2
MIN_SPIN_VELOCITY == 3
WHEEL_OFFSET_FROM_RIGHT == 250
\* HAND_NEAR_WHEEL_MULTIPLIER = NearNum / NearDen
NearNum == 3
NearDen == 2
\* PINCH_THRESHOLD = PinchNum / PinchDen
PinchNum == 1
PinchDen == 20
BUTTON_WIDTH == 200
BUTTON_HEIGHT == 60
BUTTON_OFFSET_BELOW_WHEEL == 30

\* The pointer of the wheel: "top position in OpenCV coordinate system".
pointer_position == 270

--------------------------------------------------------------------------
(* What the camera and the hand tracker deliver.                           *)

FrameWidth == 640
FrameHeight == 480

\* A landmark coordinate g stands for the normalized coordinate
\* g / LandmarkDen in [0, 1].
LandmarkDen == 64

\* MediaPipe's hand has 21 landmarks; 4 is the thumb tip, 8 the index tip.
NumLandmarks == 21
THUMB_TIP == 4
INDEX_TIP == 8

Pt(x, y) == [x |-> x, y |-> y]

\* Index-fingertip positions: left of the wheel centre just below and just
\* above the horizontal (170 and -170 degrees), on the spin button below
\* the wheel, on the button's corner outside the near-wheel zone, and far
\* from the wheel.
IndexTips == {Pt(22, 36), Pt(22, 28), Pt(39, 60), Pt(30, 62), Pt(5, 32)}

\* The thumb tip lies to the right of the index tip: close to it (a pinch)
\* or apart from it.
ThumbOffsets == {1, 4}

\* A hand as the tracker reports it: count landmarks, of which the model
\* keeps the two the program reads.
Hands ==
    { [count |-> NumLandmarks, index_tip |-> p, thumb_tip |-> Pt(p.x + o, p.y)] :
          p \in IndexTips, o \in ThumbOffsets }

\* No hand in the frame: results.multi_hand_landmarks is None.
NoHand == [count |-> 0]

\* A hand with fewer landmarks than the index tip's number.
ShortHand == [count |-> INDEX_TIP]

Observations == Hands \cup {NoHand, ShortHand}

--------------------------------------------------------------------------
(* gesture_detector.py                                                     *)

\* (distance)^2 * LandmarkDen^2, the distance in normalized coordinates
PinchDistanceSq(hand) ==
    (hand.thumb_tip.x - hand.index_tip.x) * (hand.thumb_tip.x - hand.index_tip.x)
  + (hand.thumb_tip.y - hand.index_tip.y) * (hand.thumb_tip.y - hand.index_tip.y)

\* distance < threshold, both sides squared
is_pinching(hand) ==
    PinchDistanceSq(hand) * PinchDen * PinchDen
        < PinchNum * PinchNum * LandmarkDen * LandmarkDen

\* int(index_finger.x * frame_width), int(index_finger.y * frame_height)
get_index_finger_position(hand, frame_width, frame_height) ==
    Pt((hand.index_tip.x * frame_width) \div LandmarkDen,
       (hand.index_tip.y * frame_height) \div LandmarkDen)

\* math.degrees(math.atan2(dy, dx)) as a float, for the offsets the
\* fingertip positions above have from the wheel centre.
Atan2Degrees(dy, dx) ==
    CASE dx = -170 /\ dy = 30  -> Deg(170)
      [] dx = -170 /\ dy = -30 -> Deg(-170)
      [] dx = 0    /\ dy = 210 -> Deg(90)
      [] dx = -90  /\ dy = 225 -> Deg(112)
      [] dx = -340 /\ dy = 0   -> Deg(180)

calculate_hand_angle(hand, center, frame_width, frame_height) ==
    LET p == get_index_finger_position(hand, frame_width, frame_height)
    IN  [angle |-> Atan2Degrees(p.y - center.y, p.x - center.x),
         hand_x |-> p.x, hand_y |-> p.y]

\* (distance)^2
DistanceSqToPoint(x1, y1, x2, y2) ==
    (x1 - x2) * (x1 - x2) + (y1 - y2) * (y1 - y2)

Min(a, b) == IF a < b THEN a ELSE b
Max(a, b) == IF a > b THEN a ELSE b


--------------------------------------------------------------------------
(* color_wheel_state.py: ColorWheelState.  A wheel state is a record of    *)
(* the object's fields; each method is an operator from the state (and the *)
(* arguments) to the state it leaves.                                      *)

\* hue = int(180 * i / num_colors) for i in range(num_colors); the BGR
\* conversion is OpenCV's.
generate_colors(num_colors) ==
    [i \in 1..num_colors |-> (180 * (i - 1)) \div num_colors]

ColorWheelState(num_colors) ==
    [num_colors |-> num_colors,
     rotation_angle |-> 0,
     prev_hand_angle |-> None,
     wheel_center |-> None,
     wheel_radius |-> None,
     is_rotating |-> FALSE,
     hand_near_wheel |-> FALSE,
     is_auto_spinning |-> FALSE,
     spin_velocity |-> 0,
     spin_button_rect |-> None,
     spin_button_hovered |-> FALSE,
     spin_button_pressed |-> FALSE,
     colors |-> generate_colors(num_colors)]

\* set_num_colors without the clamp: the variant the clamping property must
\* tell from the method.
set_num_colors_unclamped(s, num_colors) ==
    [s EXCEPT !.num_colors = num_colors, !.colors = generate_colors(num_colors)]

set_num_colors(s, num_colors) ==
    LET n == Max(MIN_COLORS, Min(num_colors, MAX_COLORS))
    IN  [s EXCEPT !.num_colors = n, !.colors = generate_colors(n)]

\* increase_colors that goes round to MIN_COLORS at MAX_COLORS.
increase_colors_wrapping(s) ==
    IF s.num_colors < MAX_COLORS THEN set_num_colors(s, s.num_colors + 1)
    ELSE set_num_colors(s, MIN_COLORS)

increase_colors(s) ==
    IF s.num_colors < MAX_COLORS THEN set_num_colors(s, s.num_colors + 1) ELSE s

decrease_colors(s) ==
    IF s.num_colors > MIN_COLORS THEN set_num_colors(s, s.num_colors - 1) ELSE s

\* start_auto_spin without its test of is_auto_spinning.
start_auto_spin_restarting(s, speed, negate) ==
    [s EXCEPT !.spin_velocity = IF negate THEN -speed ELSE speed,
              !.is_auto_spinning = TRUE]

\* speed is np.random.uniform's draw, negate whether np.random.random() < 0.5
start_auto_spin(s, speed, negate) ==
    IF ~s.is_auto_spinning
    THEN [s EXCEPT !.spin_velocity = IF negate THEN -speed ELSE speed,
                   !.is_auto_spinning = TRUE]
    ELSE s

\* update_auto_spin without the deceleration: the variant the termination
\* property must tell from the method.
update_auto_spin_undamped(s) ==
    IF s.is_auto_spinning
    THEN [s EXCEPT !.rotation_angle =
                       PyMod(FAdd(s.rotation_angle, s.spin_velocity), Deg(360))]
    ELSE s

\* update_auto_spin that stops the spin without clearing spin_velocity.
update_auto_spin_coasting(s) ==
    IF s.is_auto_spinning
    THEN LET angle == PyMod(FAdd(s.rotation_angle, s.spin_velocity), Deg(360))
             velocity == FMulRat(s.spin_velocity, SpinDecelNum, SpinDecelDen)
         IN  IF Abs(velocity) < Deg(MIN_SPIN_VELOCITY)
             THEN [s EXCEPT !.rotation_angle = angle,
                            !.is_auto_spinning = FALSE,
                            !.spin_velocity = velocity,
                            !.spin_button_pressed = FALSE]
             ELSE [s EXCEPT !.rotation_angle = angle,
                            !.spin_velocity = velocity]
    ELSE s

\* update_auto_spin that stops the spin without releasing the button.
update_auto_spin_latched(s) ==
    IF s.is_auto_spinning
    THEN LET angle == PyMod(FAdd(s.rotation_angle, s.spin_velocity), Deg(360))
             velocity == FMulRat(s.spin_velocity, SpinDecelNum, SpinDecelDen)
         IN  IF Abs(velocity) < Deg(MIN_SPIN_VELOCITY)
             THEN [s EXCEPT !.rotation_angle = angle,
                            !.is_auto_spinning = FALSE,
                            !.spin_velocity = 0]
             ELSE [s EXCEPT !.rotation_angle = angle,
                            !.spin_velocity = velocity]
    ELSE s

update_auto_spin(s) ==
    IF s.is_auto_spinning
    THEN LET angle == PyMod(FAdd(s.rotation_angle, s.spin_velocity), Deg(360))
             velocity == FMulRat(s.spin_velocity, SpinDecelNum, SpinDecelDen)
         IN  IF Abs(velocity) < Deg(MIN_SPIN_VELOCITY)
             THEN [s EXCEPT !.rotation_angle = angle,
                            !.is_auto_spinning = FALSE,
                            !.spin_velocity = 0,
                            !.spin_button_pressed = FALSE]
             ELSE [s EXCEPT !.rotation_angle = angle,
                            !.spin_velocity = velocity]
    ELSE s

update_wheel_position(s, frame_width, frame_height) ==
    [s EXCEPT !.wheel_center = Some(Pt(frame_width - WHEEL_OFFSET_FROM_RIGHT,
                                       frame_height \div 2)),
              !.wheel_radius = Some(Min(WHEEL_OFFSET_FROM_RIGHT - 50,
                                        frame_height \div 3))]

\* distance < wheel_radius * HAND_NEAR_WHEEL_MULTIPLIER, both sides squared
check_hand_near_wheel(s, hand_x, hand_y) ==
    [s EXCEPT !.hand_near_wheel =
        DistanceSqToPoint(hand_x, hand_y,
                          The(s.wheel_center).x, The(s.wheel_center).y)
                * NearDen * NearDen
            < The(s.wheel_radius) * The(s.wheel_radius) * NearNum * NearNum]

InButton(rect, hand_x, hand_y) ==
    /\ rect.x <= hand_x /\ hand_x <= rect.x + rect.width
    /\ rect.y <= hand_y /\ hand_y <= rect.y + rect.height

\* check_button_interaction without "not self.is_auto_spinning" in the
\* trigger's condition: the variant the no-re-trigger property must tell
\* from the method.
check_button_interaction_unguarded(s, hand, hand_x, hand_y) ==
    IF s.spin_button_rect = None
    THEN [state |-> s, result |-> FALSE]
    ELSE IF InButton(The(s.spin_button_rect), hand_x, hand_y)
    THEN IF is_pinching(hand) /\ ~s.spin_button_pressed
         THEN [state |-> [s EXCEPT !.spin_button_hovered = TRUE,
                                   !.spin_button_pressed = TRUE],
               result |-> TRUE]
         ELSE [state |-> [s EXCEPT !.spin_button_hovered = TRUE],
               result |-> FALSE]
    ELSE [state |-> [s EXCEPT !.spin_button_hovered = FALSE,
                              !.spin_button_pressed =
                                  IF ~s.is_auto_spinning THEN FALSE ELSE @],
          result |-> FALSE]

\* check_button_interaction that clears spin_button_pressed outside the
\* rectangle during a spin as well.
check_button_interaction_releasing(s, hand, hand_x, hand_y) ==
    IF s.spin_button_rect = None
    THEN [state |-> s, result |-> FALSE]
    ELSE IF InButton(The(s.spin_button_rect), hand_x, hand_y)
    THEN IF is_pinching(hand) /\ ~s.is_auto_spinning /\ ~s.spin_button_pressed
         THEN [state |-> [s EXCEPT !.spin_button_hovered = TRUE,
                                   !.spin_button_pressed = TRUE],
               result |-> TRUE]
         ELSE [state |-> [s EXCEPT !.spin_button_hovered = TRUE],
               result |-> FALSE]
    ELSE [state |-> [s EXCEPT !.spin_button_hovered = FALSE,
                              !.spin_button_pressed = FALSE],
          result |-> FALSE]

\* The state the call leaves and the value it returns.
check_button_interaction(s, hand, hand_x, hand_y) ==
    IF s.spin_button_rect = None
    THEN [state |-> s, result |-> FALSE]
    ELSE IF InButton(The(s.spin_button_rect), hand_x, hand_y)
    THEN IF is_pinching(hand) /\ ~s.is_auto_spinning /\ ~s.spin_button_pressed
         THEN [state |-> [s EXCEPT !.spin_button_hovered = TRUE,
                                   !.spin_button_pressed = TRUE],
               result |-> TRUE]
         ELSE [state |-> [s EXCEPT !.spin_button_hovered = TRUE],
               result |-> FALSE]
    ELSE [state |-> [s EXCEPT !.spin_button_hovered = FALSE,
                              !.spin_button_pressed =
                                  IF ~s.is_auto_spinning THEN FALSE ELSE @],
          result |-> FALSE]

\* angle_diff without the two wrapping branches: the variant the
\* shortest-path property must tell from the method's.
AngleDiffUnwrapped(prev_hand_angle, current_angle) ==
    FSub(current_angle, prev_hand_angle)

\* angle_diff of update_manual_rotation, prev_hand_angle being set
AngleDiff(prev_hand_angle, current_angle) ==
    LET angle_diff == FSub(current_angle, prev_hand_angle)
    IN  IF angle_diff > Deg(180) THEN FSub(angle_diff, Deg(360))
        ELSE IF angle_diff < -Deg(180) THEN FAdd(angle_diff, Deg(360))
        ELSE angle_diff

update_manual_rotation(s, current_angle) ==
    IF s.prev_hand_angle # None
    THEN [s EXCEPT !.rotation_angle =
                       PyMod(FAdd(@, AngleDiff(The(s.prev_hand_angle),
                                               current_angle)),
                             Deg(360)),
                   !.is_rotating = TRUE,
                   !.prev_hand_angle = Some(current_angle)]
    ELSE [s EXCEPT !.prev_hand_angle = Some(current_angle)]

\* reset_manual_rotation leaving prev_hand_angle: the variant the re-entry
\* property must tell from the method.
reset_manual_rotation_keeping(s) ==
    IF ~s.is_auto_spinning THEN [s EXCEPT !.is_rotating = FALSE] ELSE s

reset_manual_rotation(s) ==
    IF ~s.is_auto_spinning
    THEN [s EXCEPT !.prev_hand_angle = None, !.is_rotating = FALSE]
    ELSE s

\* reset_hand_state clearing the latch and is_rotating during a spin too:
\* the variant the hand-loss property must tell from the method.
reset_hand_state_unconditional(s) ==
    [s EXCEPT !.prev_hand_angle = None,
              !.hand_near_wheel = FALSE,
              !.spin_button_hovered = FALSE,
              !.spin_button_pressed = FALSE,
              !.is_rotating = FALSE]

\* reset_hand_state that also stops the spin.
reset_hand_state_stopping(s) ==
    [s EXCEPT !.prev_hand_angle = None,
              !.hand_near_wheel = FALSE,
              !.spin_button_hovered = FALSE,
              !.spin_button_pressed = FALSE,
              !.is_rotating = FALSE,
              !.is_auto_spinning = FALSE,
              !.spin_velocity = 0]

reset_hand_state(s) ==
    LET t == [s EXCEPT !.prev_hand_angle = None,
                       !.hand_near_wheel = FALSE,
                       !.spin_button_hovered = FALSE]
    IN  IF ~s.is_auto_spinning
        THEN [t EXCEPT !.spin_button_pressed = FALSE, !.is_rotating = FALSE]
        ELSE t

get_button_state(s) ==
    [is_spinning |-> s.is_auto_spinning,
     is_hovered |-> s.spin_button_hovered,
     is_pressed |-> s.spin_button_pressed]

--------------------------------------------------------------------------
(* ui_renderer.py: what the renderer computes from the state.              *)

\* The rectangle draw_spin_button draws and returns.
draw_spin_button(wheel_center, wheel_radius) ==
    [x |-> wheel_center.x - BUTTON_WIDTH \div 2,
     y |-> wheel_center.y + wheel_radius + BUTTON_OFFSET_BELOW_WHEEL,
     width |-> BUTTON_WIDTH,
     height |-> BUTTON_HEIGHT]

\* angle_per_segment = 360 / num_colors of draw_color_wheel
AnglePerSegment(num_colors) == FDiv(Deg(360), Deg(num_colors))

\* selected_color_index without the final "% len(colors)": the variant the
\* range property must tell from the renderer's.
SelectedColorIndexUnreduced(num_colors, rotation_angle, angle_per_segment) ==
    LET segment_angle == PyMod(FSub(Deg(pointer_position), rotation_angle), Deg(360))
    IN  PyInt(FDiv(segment_angle, angle_per_segment))

\* selected_color_index of _get_selected_color
SelectedColorIndex(num_colors, rotation_angle, angle_per_segment) ==
    LET segment_angle == PyMod(FSub(Deg(pointer_position), rotation_angle), Deg(360))
    IN  PyInt(FDiv(segment_angle, angle_per_segment)) % num_colors


--------------------------------------------------------------------------
(* color_wheel_app.py: HandColorWheel.                                     *)

\* The draws of start_auto_spin: np.random.uniform(MIN_SPIN_SPEED,
\* MAX_SPIN_SPEED), and the sign.
SpinSpeeds == {Deg(MIN_SPIN_SPEED), Deg(MAX_SPIN_SPEED)}

\* cv2.waitKey(1) & 0xFF: the keys the program tells apart, one other key,
\* and 255 when no key was pressed.
KEY_SPACE == 32
KEY_PLUS == 43
KEY_EQUALS == 61
KEY_MINUS == 45
KEY_UNDERSCORE == 95
KEY_Q == 113
KEY_A == 97
KEY_NONE == 255

Keys == {KEY_SPACE, KEY_PLUS, KEY_EQUALS, KEY_MINUS, KEY_UNDERSCORE, KEY_Q,
         KEY_A, KEY_NONE}

\* _process_hand_landmarks with a manual-rotation branch that does not test
\* is_auto_spinning.
process_hand_landmarks_during_spin(s, hand, frame_width, frame_height, speed, negate) ==
    LET h == calculate_hand_angle(hand, The(s.wheel_center), frame_width,
                                  frame_height)
        b == check_button_interaction(s, hand, h.hand_x, h.hand_y)
        s1 == IF b.result THEN start_auto_spin(b.state, speed, negate) ELSE b.state
        s2 == check_hand_near_wheel(s1, h.hand_x, h.hand_y)
    IN  [state |-> IF s2.hand_near_wheel /\ ~s2.spin_button_hovered
                   THEN update_manual_rotation(s2, h.angle)
                   ELSE reset_manual_rotation(s2),
         button_pressed |-> b.result]

\* _process_hand_landmarks: the state it leaves and the value of its local
\* button_pressed.
process_hand_landmarks(s, hand, frame_width, frame_height, speed, negate) ==
    LET h == calculate_hand_angle(hand, The(s.wheel_center), frame_width,
                                  frame_height)
        b == check_button_interaction(s, hand, h.hand_x, h.hand_y)
        s1 == IF b.result THEN start_auto_spin(b.state, speed, negate) ELSE b.state
        s2 == check_hand_near_wheel(s1, h.hand_x, h.hand_y)
        s3 == IF ~s2.is_auto_spinning /\ s2.hand_near_wheel /\ ~s2.spin_button_hovered
              THEN update_manual_rotation(s2, h.angle)
              ELSE IF ~s2.is_auto_spinning THEN reset_manual_rotation(s2) ELSE s2
    IN  [state |-> s3, button_pressed |-> b.result]

\* process_frame up to the hand: the wheel position, the auto-spin and the
\* button rectangle.
FrameHead(s, frame_width, frame_height) ==
    LET s1 == update_auto_spin(update_wheel_position(s, frame_width, frame_height))
    IN  [s1 EXCEPT !.spin_button_rect =
                       Some(draw_spin_button(The(s1.wheel_center),
                                             The(s1.wheel_radius)))]

\* landmark[INDEX_TIP] of a hand with too few landmarks raises IndexError.
Readable(results) == results.count > INDEX_TIP

\* process_frame with update_auto_spin moved behind the hand's processing.
process_frame_spin_last(s, results, frame_width, frame_height, speed, negate) ==
    LET s0 == update_wheel_position(s, frame_width, frame_height)
        s1 == [s0 EXCEPT !.spin_button_rect =
                             Some(draw_spin_button(The(s0.wheel_center),
                                                   The(s0.wheel_radius)))]
        r == IF results.count # 0
             THEN process_hand_landmarks(s1, results, frame_width,
                                         frame_height, speed, negate)
             ELSE [state |-> reset_hand_state(s1), button_pressed |-> FALSE]
    IN  [state |-> update_auto_spin(r.state),
         button_pressed |-> r.button_pressed]

\* process_frame on a frame without a hand or with a readable hand.
process_frame(s, results, frame_width, frame_height, speed, negate) ==
    LET s1 == FrameHead(s, frame_width, frame_height)
    IN  IF results.count # 0
        THEN process_hand_landmarks(s1, results, frame_width, frame_height,
                                    speed, negate)
        ELSE [state |-> reset_hand_state(s1), button_pressed |-> FALSE]

handle_key_press(s, key, speed, negate) ==
    IF key = KEY_SPACE THEN start_auto_spin(s, speed, negate)
    ELSE IF key \in {KEY_PLUS, KEY_EQUALS} THEN increase_colors(s)
    ELSE IF key \in {KEY_MINUS, KEY_UNDERSCORE} THEN decrease_colors(s)
    ELSE s

--------------------------------------------------------------------------
(* The program's state: the ColorWheelState the application owns           *)
(* (self.state), the place of the main loop, and two history variables.    *)

VARIABLES
    state,            \* self.state: the record of the ColorWheelState's fields
    pc,               \* "frame", "key", "done" (q), "crashed" (exception)
    hold_triggers,    \* history: the times the button fired in the present
                      \* run of frames with the hand pinching on the button
    call              \* history: the last direct call that is traced, with
                      \* its arguments and what it computed; None before
                      \* any, and in run(), whose calls are not traced

vars == <<state, pc, hold_triggers, call>>

\* The counter of the history variable stops at MaxTriggers.
MaxTriggers == 2

\* The colour keys are pressed while the number of colours stays within
\* MaxColorDrift of the number the application starts with.
MaxColorDrift == 1

\* The hand of this frame is on the button and pinching.
PinchOnButton(results, rect, frame_width, frame_height) ==
    /\ Readable(results)
    /\ LET p == get_index_finger_position(results, frame_width, frame_height)
       IN  InButton(rect, p.x, p.y)
    /\ is_pinching(results)

\* HandColorWheel(num_colors=config.DEFAULT_NUM_COLORS), then run()
Init ==
    /\ state = ColorWheelState(DEFAULT_NUM_COLORS)
    /\ pc = "frame"
    /\ hold_triggers = 0
    /\ call = None

\* What start_auto_spin draws when it starts a spin.
Draws == [speed : SpinSpeeds, negate : BOOLEAN]

\* The draws of a step: start_auto_spin draws only when it starts a spin.
DrawsIf(starts) == IF starts THEN Draws ELSE {CHOOSE d \in Draws : TRUE}

\* process_frame on what the tracker found in the camera's frame, as run()
\* calls it: the fields of self.state, the place in the loop and the count
\* of the present hold's button fires.
Frame(results) ==
    /\ pc = "frame"
    /\ IF results.count # 0 /\ ~Readable(results)
       THEN /\ state' = FrameHead(state, FrameWidth, FrameHeight)
            /\ pc' = "crashed"
            /\ UNCHANGED hold_triggers
       ELSE \E r \in {process_frame(state, results, FrameWidth, FrameHeight,
                                    0, FALSE)} :
            \E d \in DrawsIf(r.button_pressed) :
                /\ state' = IF r.button_pressed
                            THEN process_frame(state, results, FrameWidth,
                                               FrameHeight, d.speed, d.negate).state
                            ELSE r.state
                /\ pc' = "key"
                /\ hold_triggers' =
                       IF PinchOnButton(results, The(r.state.spin_button_rect),
                                        FrameWidth, FrameHeight)
                       THEN Min(hold_triggers + (IF r.button_pressed THEN 1 ELSE 0),
                                MaxTriggers)
                       ELSE 0

\* One pass of run()'s loop up to the key.
ProcessFrame(results) ==
    /\ Frame(results)
    /\ UNCHANGED call

\* cap.read() delivers no frame (or the camera did not open): the loop ends.
CaptureFails ==
    /\ pc = "frame"
    /\ pc' = "done"
    /\ UNCHANGED <<state, hold_triggers, call>>

\* The rest of the pass: cv2.waitKey, then quit or handle_key_press.
WaitKey(key) ==
    /\ pc = "key"
    /\ IF key = KEY_Q
       THEN pc' = "done" /\ state' = state
       ELSE /\ pc' = "frame"
            /\ \E d \in DrawsIf(key = KEY_SPACE /\ ~state.is_auto_spinning) :
                   state' = handle_key_press(state, key, d.speed, d.negate)
            /\ Abs(state'.num_colors - DEFAULT_NUM_COLORS) <= MaxColorDrift
    /\ UNCHANGED <<hold_triggers, call>>

Next ==
    \/ \E results \in Observations : ProcessFrame(results)
    \/ CaptureFails
    \/ \E key \in Keys : WaitKey(key)

Spec == Init /\ [][Next]_vars

\* The run loop with the history of the hand: call records the angle
\* calculate_hand_angle computed in the frame just processed, and is None
\* after a frame without a hand.  The hands are those near the wheel and
\* off the button (at 170 and -170 degrees), the keys are space, none and q.
TrackedHands == {hand \in Hands : hand.index_tip \in {Pt(22, 36), Pt(22, 28)}}

TrackedKeys == {KEY_SPACE, KEY_NONE, KEY_Q}

\* The angle _process_hand_landmarks computes for the frame's hand.
FrameAngle(results) ==
    calculate_hand_angle(results,
                         The(FrameHead(state, FrameWidth, FrameHeight).wheel_center),
                         FrameWidth, FrameHeight).angle

TrackFrame(results) ==
    /\ Frame(results)
    /\ call' = IF results.count # 0
               THEN Some([method |-> "calculate_hand_angle",
                          current_angle |-> FrameAngle(results)])
               ELSE None

NextTracked ==
    \/ \E results \in TrackedHands \cup {NoHand} : TrackFrame(results)
    \/ CaptureFails
    \/ \E key \in TrackedKeys : WaitKey(key)

SpecTracked == Init /\ [][NextTracked]_vars

--------------------------------------------------------------------------
(* Direct calls.  The claims about ColorWheelState's methods and about the *)
(* renderer's selection speak of any caller, not only of run(): the        *)
(* specifications below call the methods directly (pc = "api"), from the   *)
(* states and with the arguments each names.                               *)

\* The numbers of colours a caller asks for reach RequestMargin past the
\* bounds on both sides.
RequestMargin == 45

Requests == (MIN_COLORS - RequestMargin)..(MAX_COLORS + RequestMargin)

\* ColorWheelState(num_colors=n) for any requested n
InitColors ==
    /\ \E n \in Requests : state = ColorWheelState(n)
    /\ pc = "api"
    /\ hold_triggers = 0
    /\ call = None

SetNumColors(n) ==
    /\ pc = "api"
    /\ state' = set_num_colors(state, n)
    /\ call' = Some([method |-> "set_num_colors", num_colors |-> n])
    /\ UNCHANGED <<pc, hold_triggers>>

IncreaseColors ==
    /\ pc = "api"
    /\ state' = increase_colors(state)
    /\ call' = Some([method |-> "increase_colors"])
    /\ UNCHANGED <<pc, hold_triggers>>

DecreaseColors ==
    /\ pc = "api"
    /\ state' = decrease_colors(state)
    /\ call' = Some([method |-> "decrease_colors"])
    /\ UNCHANGED <<pc, hold_triggers>>

NextColors ==
    \/ \E n \in Requests : SetNumColors(n)
    \/ IncreaseColors
    \/ DecreaseColors

SpecColors == InitColors /\ [][NextColors]_vars

\* The hand angles a caller passes: the floats nearest to the multiples of
\* AngleStep degrees in [-180, 180].
AngleStep == 10

HandAngles ==
    {Rnd(Deg(k * AngleStep)) : k \in -(180 \div AngleStep)..(180 \div AngleStep)}

InitRotation ==
    /\ state = ColorWheelState(DEFAULT_NUM_COLORS)
    /\ pc = "api"
    /\ hold_triggers = 0
    /\ call = None

UpdateManualRotation(current_angle) ==
    /\ pc = "api"
    /\ state' = update_manual_rotation(state, current_angle)
    /\ UNCHANGED <<pc, hold_triggers, call>>

ResetManualRotation ==
    /\ pc = "api"
    /\ state' = reset_manual_rotation(state)
    /\ UNCHANGED <<pc, hold_triggers, call>>

StartAutoSpin(speed, negate) ==
    /\ pc = "api"
    /\ state' = start_auto_spin(state, speed, negate)
    /\ UNCHANGED <<pc, hold_triggers, call>>

UpdateAutoSpin ==
    /\ pc = "api"
    /\ state' = update_auto_spin(state)
    /\ UNCHANGED <<pc, hold_triggers, call>>

NextRotation ==
    \/ \E current_angle \in HandAngles : UpdateManualRotation(current_angle)
    \/ ResetManualRotation
    \/ \E d \in Draws : StartAutoSpin(d.speed, d.negate)
    \/ UpdateAutoSpin

SpecRotation == InitRotation /\ [][NextRotation]_vars

\* The rotation angles the traced calls start from.
StartAngles == {0, Deg(90), Deg(356)}

\* A wheel being turned by hand: the last hand angle any of HandAngles.
InitManual ==
    /\ \E r \in StartAngles, prev \in HandAngles, rotating \in BOOLEAN :
           state = [ColorWheelState(DEFAULT_NUM_COLORS) EXCEPT
                        !.rotation_angle = r,
                        !.prev_hand_angle = Some(prev),
                        !.is_rotating = rotating]
    /\ pc = "api"
    /\ hold_triggers = 0
    /\ call = None

\* One call of update_manual_rotation is traced from each of these states:
\* the call with the rotation angle it finds, its hand angles and the
\* angle_diff it computes.
TraceManualRotation(current_angle) ==
    /\ pc = "api"
    /\ call = None
    /\ state.prev_hand_angle # None
    /\ state' = update_manual_rotation(state, current_angle)
    /\ call' = Some([method |-> "update_manual_rotation",
                      rotation_angle |-> state.rotation_angle,
                      prev_hand_angle |-> The(state.prev_hand_angle),
                      current_angle |-> current_angle,
                      angle_diff |-> AngleDiff(The(state.prev_hand_angle),
                                               current_angle)])
    /\ UNCHANGED <<pc, hold_triggers>>

NextManual == \E current_angle \in HandAngles : TraceManualRotation(current_angle)

SpecManual == InitManual /\ [][NextManual]_vars

\* The spins a caller finds under way: every float velocity from the
\* minimum velocity to MaxSpinVelocity degrees a call, of either sign, at
\* the angles of StartAngles, the button's latch set or not.
MaxSpinVelocity == 16

SpinVelocities ==
    {v \in -Deg(MaxSpinVelocity)..Deg(MaxSpinVelocity) :
        Rnd(v) = v /\ Abs(v) >= Deg(MIN_SPIN_VELOCITY)}

InitSpin ==
    /\ \E r \in StartAngles, v \in SpinVelocities, pressed \in BOOLEAN :
           state = [ColorWheelState(DEFAULT_NUM_COLORS) EXCEPT
                        !.rotation_angle = r,
                        !.is_auto_spinning = TRUE,
                        !.spin_velocity = v,
                        !.spin_button_pressed = pressed]
    /\ pc = "api"
    /\ hold_triggers = 0
    /\ call = None

NextSpin == UpdateAutoSpin

\* update_auto_spin is called again and again (process_frame calls it on
\* every frame).
SpecSpin == InitSpin /\ [][NextSpin]_vars /\ WF_vars(UpdateAutoSpin)

\* The rotation angles the renderer is handed: every float in [0, 360).
RotationAngles == {r \in 0..(Deg(360) - 1) : Rnd(r) = r}

InitRender ==
    /\ \E n \in MIN_COLORS..MAX_COLORS, r \in RotationAngles :
           state = [ColorWheelState(n) EXCEPT !.rotation_angle = r]
    /\ pc = "api"
    /\ hold_triggers = 0
    /\ call = None

\* draw_color_wheel on the state's colours and rotation angle, down to the
\* index _get_selected_color computes.
DrawColorWheel ==
    /\ pc = "api"
    /\ call' = Some([method |-> "_get_selected_color",
                      selected_color_index |->
                          SelectedColorIndex(Len(state.colors),
                                             state.rotation_angle,
                                             AnglePerSegment(Len(state.colors)))])
    /\ UNCHANGED <<state, pc, hold_triggers>>

NextRender == DrawColorWheel

SpecRender == InitRender /\ [][NextRender]_vars

--------------------------------------------------------------------------
(* The properties.  Each is stated for the specification named with it.    *)

\* C1 (Spec): in a run of consecutive frames in which the hand stays inside
\* the button's rectangle and stays pinching, the button starts the spin at
\* most once, however long the hold lasts and whenever it begins.
C1_ButtonFiresOncePerHold == hold_triggers <= 1

\* C2 (SpecRotation): rotation_angle is in [0, 360) in every reachable
\* state, whatever calls of update_manual_rotation and update_auto_spin were
\* made.
C2_RotationAngleInRange ==
    0 <= state.rotation_angle /\ state.rotation_angle < Deg(360)

\* The least k with (num / den) * SPIN_DECELERATION^k below
\* MIN_SPIN_VELOCITY, in exact arithmetic.
RECURSIVE DecayCalls(_, _)
DecayCalls(num, den) ==
    IF num < MIN_SPIN_VELOCITY * den THEN 0
    ELSE 1 + DecayCalls(num * SpinDecelNum, den * SpinDecelDen)

\* The spin of s is over after at most calls calls of update_auto_spin.
RECURSIVE StopsWithin(_, _)
StopsWithin(s, calls) ==
    \/ ~s.is_auto_spinning
    \/ calls > 0 /\ StopsWithin(update_auto_spin(s), calls - 1)

SpinOver(s) ==
    ~s.is_auto_spinning /\ s.spin_velocity = 0 /\ ~s.spin_button_pressed

\* C3 (SpecSpin): from any spinning state with a velocity at or above the
\* minimum, repeated calls of update_auto_spin end the spin within the
\* number of calls the geometric decay gives, the call that ends it leaves
\* spin_velocity 0 and the button's latch released, and the spin does end.
C3_AutoSpinTerminates ==
    /\ [](state.is_auto_spinning =>
            StopsWithin(state, DecayCalls(Abs(state.spin_velocity), Scale)))
    /\ [][state.is_auto_spinning /\ ~state'.is_auto_spinning => SpinOver(state')]_vars
    /\ <>SpinOver(state)

\* A spin from angle 0 at 16 degrees a call has run out, at 16 + 8 + 4.
C3_SpinRanOut == SpinOver(state) /\ state.rotation_angle = Deg(28)

\* C4 (SpecColors): num_colors is within [MIN_COLORS, MAX_COLORS] and the
\* palette has num_colors entries in every reachable state, the state the
\* constructor leaves for any requested number included.
C4_NumColorsInBounds ==
    /\ state.num_colors \in MIN_COLORS..MAX_COLORS
    /\ Len(state.colors) = state.num_colors

Clamp(n, lo, hi) == IF n < lo THEN lo ELSE IF n > hi THEN hi ELSE n

\* C5 (SpecColors): after set_num_colors(n), for n below, inside or above
\* the bounds, num_colors is clamp(n, MIN_COLORS, MAX_COLORS) and the palette
\* has num_colors entries; and the call is accepted for every n.
C5_SetNumColorsClamps ==
    /\ \A n \in Requests : ENABLED SetNumColors(n)
    /\ call # None /\ The(call).method = "set_num_colors" =>
           /\ state.num_colors = Clamp(The(call).num_colors, MIN_COLORS, MAX_COLORS)
           /\ Len(state.colors) = state.num_colors
           /\ pc = "api"

\* set_num_colors was called with the largest request and left MAX_COLORS.
C5_ClampedFromAbove ==
    /\ call = Some([method |-> "set_num_colors",
                    num_colors |-> MAX_COLORS + RequestMargin])
    /\ state.num_colors = MAX_COLORS
    /\ Len(state.colors) = MAX_COLORS

\* C6 (SpecManual): with prev_hand_angle set, the angle_diff that
\* update_manual_rotation adds to rotation_angle differs from the float
\* current_angle - prev_hand_angle by a multiple of 360 and is at most 180 in
\* magnitude; from 170 to -170 it is +20.
C6_ShortestPath ==
    call # None /\ The(call).method = "update_manual_rotation" =>
        LET c == The(call)
            raw == FSub(c.current_angle, c.prev_hand_angle)
        IN  /\ Abs(c.angle_diff) <= Deg(180)
            /\ c.angle_diff \in {raw, raw - Deg(360), raw + Deg(360)}
            /\ state.rotation_angle =
                   PyMod(FAdd(c.rotation_angle, c.angle_diff), Deg(360))
            /\ (c.prev_hand_angle = Deg(170) /\ c.current_angle = -Deg(170)
                    => c.angle_diff = Deg(20))

\* The hand went from 170 to -170 with the wheel at 0, and the wheel is at 20.
C6_AcrossTheSeam ==
    /\ call # None
    /\ The(call).method = "update_manual_rotation"
    /\ The(call).prev_hand_angle = Deg(170)
    /\ The(call).current_angle = -Deg(170)
    /\ The(call).rotation_angle = 0
    /\ The(call).angle_diff = Deg(20)
    /\ state.rotation_angle = Deg(20)
    /\ state.prev_hand_angle = Some(-Deg(170))

\* C7 (SpecRender): for every rotation angle in [0, 360) and every number of
\* colours within the bounds, the index the renderer selects is in
\* 0 .. num_colors - 1; with 6 colours and the wheel at 0 it is 4.
C7_SelectedIndexInRange ==
    call # None /\ The(call).method = "_get_selected_color" =>
        /\ The(call).selected_color_index \in 0..(state.num_colors - 1)
        /\ (state.num_colors = 6 /\ state.rotation_angle = 0
                => The(call).selected_color_index = 4)

\* The renderer drew 6 colours with the wheel at 0 and selected index 4.
C7_SixColoursAtZero ==
    /\ state.num_colors = 6
    /\ state.rotation_angle = 0
    /\ call = Some([method |-> "_get_selected_color", selected_color_index |-> 4])

\* The places a fingertip is tried at around the button: its corners, and
\* the pixels just outside them.
ButtonProbes(rect) ==
    {Pt(x, y) : x \in {rect.x - 1, rect.x, rect.x + rect.width,
                       rect.x + rect.width + 1},
                y \in {rect.y - 1, rect.y, rect.y + rect.height,
                       rect.y + rect.height + 1}}

\* A pinching hand, to be put at the probes.
PinchingHand == CHOOSE hand \in Hands : is_pinching(hand)

\* The call on s at (p.x, p.y) returns False and does not set the latch.
NoTrigger(s, hand, p) ==
    LET b == check_button_interaction(s, hand, p.x, p.y)
    IN  /\ ~b.result
        /\ b.state.spin_button_pressed => s.spin_button_pressed

\* check_button_interaction on a spinning s returns False and does not set
\* the latch: for each hand of Hands where its fingertip is, and for a
\* pinching hand at each probe.
NoTriggerWhileSpinning(s) ==
    s.is_auto_spinning /\ s.spin_button_rect # None =>
        /\ \A hand \in Hands :
               NoTrigger(s, hand,
                         get_index_finger_position(hand, FrameWidth, FrameHeight))
        /\ \A p \in ButtonProbes(The(s.spin_button_rect)) :
               NoTrigger(s, PinchingHand, p)

\* C8 (Spec): while is_auto_spinning is true, check_button_interaction
\* returns False for every hand position and pinch state and the latch
\* never goes from False to True: not in the state the frame's call finds,
\* not over a frame through which the spin continues, not over a key.
C8_NoRetriggerDuringSpin ==
    /\ [](/\ NoTriggerWhileSpinning(state)
          /\ NoTriggerWhileSpinning(FrameHead(state, FrameWidth, FrameHeight)))
    /\ [][(\/ pc = "frame" /\ FrameHead(state, FrameWidth, FrameHeight).is_auto_spinning
           \/ pc = "key" /\ state.is_auto_spinning)
          => /\ state'.spin_button_pressed => state.spin_button_pressed
             /\ hold_triggers' <= hold_triggers]_vars

\* The pinch that started a spin at 8 degrees a frame from angle 0 is still
\* held on the button one frame into the spin, and has fired once.
C8_HeldThroughSpin ==
    /\ pc = "key"
    /\ hold_triggers = 1
    /\ state.is_auto_spinning
    /\ state.spin_button_pressed
    /\ state.spin_button_hovered
    /\ state.rotation_angle = Deg(MAX_SPIN_SPEED)
    /\ state.spin_velocity = Deg(MAX_SPIN_SPEED) \div 2

\* update_manual_rotation with prev_hand_angle None: prev_hand_angle goes
\* from None to a hand angle, and the frame's rotation_angle is the one the
\* frame's update_auto_spin left.
FirstUpdateAddsNothing ==
    state.prev_hand_angle = None /\ state'.prev_hand_angle # None =>
        /\ state'.rotation_angle =
               FrameHead(state, FrameWidth, FrameHeight).rotation_angle
        /\ state'.is_rotating = state.is_rotating

C10_HandLossResets ==
    [][/\ ProcessFrame(NoHand) =>
              LET s == FrameHead(state, FrameWidth, FrameHeight)
              IN  /\ state'.prev_hand_angle = None
                  /\ ~state'.hand_near_wheel
                  /\ ~state'.spin_button_hovered
                  /\ IF s.is_auto_spinning
                     THEN /\ state'.spin_button_pressed = s.spin_button_pressed
                          /\ state'.is_rotating = s.is_rotating
                     ELSE /\ ~state'.spin_button_pressed
                          /\ ~state'.is_rotating
       /\ FirstUpdateAddsNothing]_vars

\* The hand was lost during a spin the button started while the wheel was
\* being turned: the latch and is_rotating are kept, the reference is gone.
C10_LostDuringSpin ==
    /\ pc = "key"
    /\ state.is_auto_spinning
    /\ state.spin_button_pressed
    /\ state.is_rotating
    /\ state.prev_hand_angle = None
    /\ ~state.hand_near_wheel
    /\ ~state.spin_button_hovered

\* C11 (Spec): a frame whose hand has fewer landmarks than the fingertip
\* indices require is handled as a frame without a hand: reset_hand_state
\* is applied to what the frame's head left, and the loop goes on to the
\* key; no error is raised.
C11_MalformedHandIsNoHand ==
    [][ProcessFrame(ShortHand) =>
           /\ pc' = "key"
           /\ state' = reset_hand_state(FrameHead(state, FrameWidth, FrameHeight))]_vars

\* C12 (Spec): the key of a pass is dispatched so: space calls
\* start_auto_spin, '+' calls increase_colors, '-' calls decrease_colors,
\* 'q' ends the loop, and every other key ('=', '_' and 255 among them)
\* leaves the whole state as it was.
C12_KeyDispatch ==
    [][\A key \in Keys :
           WaitKey(key) =>
               CASE key = KEY_SPACE ->
                        \E d \in Draws :
                            state' = start_auto_spin(state, d.speed, d.negate)
                 [] key = KEY_PLUS -> state' = increase_colors(state)
                 [] key = KEY_MINUS -> state' = decrease_colors(state)
                 [] key = KEY_Q -> pc' = "done" /\ state' = state
                 [] OTHER -> state' = state]_vars

\* The frame's head ends the spin under way in s: update_auto_spin takes
\* the velocity below the threshold.
SpinEndsInHead(s) ==
    /\ s.is_auto_spinning
    /\ ~FrameHead(s, FrameWidth, FrameHeight).is_auto_spinning

\* What _process_hand_landmarks has before its manual-rotation branch, from
\* the head of the frame on s: the angle and place of the hand and the state
\* after check_button_interaction and check_hand_near_wheel when the button
\* does not fire.
BeforeManual(s, hand) ==
    LET head == FrameHead(s, FrameWidth, FrameHeight)
        h == calculate_hand_angle(hand, The(head.wheel_center), FrameWidth,
                                  FrameHeight)
        b == check_button_interaction(head, hand, h.hand_x, h.hand_y)
    IN  [angle |-> h.angle,
         on_button |-> InButton(The(head.spin_button_rect), h.hand_x, h.hand_y),
         fired |-> b.result,
         state |-> check_hand_near_wheel(b.state, h.hand_x, h.hand_y)]

\* C13 (Spec): update_auto_spin runs before the button and manual-rotation
\* checks of the frame: in the frame in which the spin's velocity falls
\* below the threshold, a hand near the wheel and off the button (the frame
\* leaves hand_near_wheel True and spin_button_hovered False) has
\* update_manual_rotation called on it in that same frame.
C13_ManualInTheFrameTheSpinEnds ==
    [][/\ pc = "frame"
       /\ pc' = "key"
       /\ state.is_auto_spinning
       /\ state'.hand_near_wheel
       /\ ~state'.spin_button_hovered
       /\ SpinEndsInHead(state)
       => \E hand \in Hands :
              LET m == BeforeManual(state, hand)
              IN  /\ m.state.hand_near_wheel
                  /\ ~m.on_button
                  /\ state' = update_manual_rotation(m.state, m.angle)
                  /\ state'.prev_hand_angle = Some(m.angle)
                  /\ ~state'.is_auto_spinning]_vars

\* A spin that the next frame's head ends, the wheel at 8 degrees, with a
\* hand at 170 degrees known from before the spin: the frame of a hand at
\* -170 degrees turns the wheel by hand, to 8 + 4 + 20 degrees.
C13_SpinEndsUnderTheHand ==
    /\ pc = "frame"
    /\ SpinEndsInHead(state)
    /\ state.rotation_angle = Deg(MAX_SPIN_SPEED)
    /\ state.prev_hand_angle = Some(Rnd(Deg(170)))
    /\ \E hand \in Hands :
           LET r == process_frame(state, hand, FrameWidth, FrameHeight, 0, FALSE)
           IN  /\ BeforeManual(state, hand).angle = Rnd(Deg(-170))
               /\ r.state.is_rotating
               /\ r.state.rotation_angle = Deg(32)
               /\ r.state.prev_hand_angle = Some(Rnd(Deg(-170)))

\* C14 (Spec): in a frame the camera delivered, in which is_auto_spinning is
\* still True after update_auto_spin, update_manual_rotation is not called (prev_hand_angle
\* is not set to an angle and is_rotating is not changed) and the frame
\* changes rotation_angle only by adding spin_velocity modulo 360.
C14_SpinFrameAddsOnlyTheVelocity ==
    [][/\ pc = "frame"
       /\ pc' # "done"
       /\ state.is_auto_spinning
       /\ FrameHead(state, FrameWidth, FrameHeight).is_auto_spinning
       => /\ state'.rotation_angle =
                 PyMod(FAdd(state.rotation_angle, state.spin_velocity), Deg(360))
          /\ state'.prev_hand_angle \in {state.prev_hand_angle, None}
          /\ state'.is_rotating = state.is_rotating]_vars

\* A frame of a spin started at 8 degrees a frame from angle 0 had a hand
\* near the wheel and off the button, with an earlier hand angle still
\* recorded: the wheel is at 8, the angle recorded is the earlier one and
\* the wheel has not been turned by hand.
C14_HandNearDuringSpin ==
    /\ pc = "key"
    /\ state.is_auto_spinning
    /\ state.spin_velocity = Deg(MAX_SPIN_SPEED) \div 2
    /\ state.rotation_angle = Deg(MAX_SPIN_SPEED)
    /\ state.hand_near_wheel
    /\ ~state.spin_button_hovered
    /\ state.prev_hand_angle = Some(Rnd(Deg(170)))
    /\ ~state.is_rotating

\* C15 (SpecTracked): whenever a frame calls update_manual_rotation with
\* prev_hand_angle set (no spin after the frame's head, the hand near the
\* wheel and off the button), prev_hand_angle is the angle of the hand
\* observed in the frame before; so after a spin during which the hand
\* stayed in view the first manual update does not use an angle recorded
\* before the spin.
C15_PrevAngleIsLastFramesAngle ==
    [][/\ pc = "frame"
       /\ pc' = "key"
       /\ state.prev_hand_angle # None
       /\ ~FrameHead(state, FrameWidth, FrameHeight).is_auto_spinning
       /\ state'.hand_near_wheel
       /\ ~state'.spin_button_hovered
       => /\ call # None
          /\ state.prev_hand_angle = Some(The(call).current_angle)]_vars

\* start_auto_spin on s, whatever it draws: nothing changes when s is
\* spinning; otherwise is_auto_spinning becomes True, spin_velocity gets a
\* magnitude in [MIN_SPIN_SPEED, MAX_SPIN_SPEED], and no other field changes.
StartAutoSpinContract(s) ==
    \A d \in Draws :
        LET t == start_auto_spin(s, d.speed, d.negate)
        IN  IF s.is_auto_spinning
            THEN t = s
            ELSE /\ t.is_auto_spinning
                 /\ Abs(t.spin_velocity) >= Deg(MIN_SPIN_SPEED)
                 /\ Abs(t.spin_velocity) <= Deg(MAX_SPIN_SPEED)
                 /\ t = [s EXCEPT !.is_auto_spinning = TRUE,
                                  !.spin_velocity = t.spin_velocity]

\* Both signs are drawn.
StartAutoSpinEitherSign(s) ==
    ~s.is_auto_spinning =>
        /\ \E d \in Draws : start_auto_spin(s, d.speed, d.negate).spin_velocity > 0
        /\ \E d \in Draws : start_auto_spin(s, d.speed, d.negate).spin_velocity < 0

\* The step is the space key's call of start_auto_spin.
SpaceStartsSpin ==
    /\ pc = "key"
    /\ \E d \in Draws : state' = start_auto_spin(state, d.speed, d.negate)

\* The step is a frame in which check_button_interaction returned True and
\* start_auto_spin was called on the state it left.
ButtonStartsSpin ==
    /\ pc = "frame"
    /\ \E head \in {FrameHead(state, FrameWidth, FrameHeight)}, hand \in Hands :
       \E h \in {calculate_hand_angle(hand, The(head.wheel_center), FrameWidth,
                                      FrameHeight)} :
       \E b \in {check_button_interaction(head, hand, h.hand_x, h.hand_y)} :
           /\ b.result
           /\ \E d \in Draws :
                  state' = check_hand_near_wheel(
                               start_auto_spin(b.state, d.speed, d.negate),
                               h.hand_x, h.hand_y)

\* C16 (Spec): start_auto_spin changes nothing while the wheel spins; on a
\* wheel that does not spin it sets is_auto_spinning and a spin_velocity of
\* magnitude in [MIN_SPIN_SPEED, MAX_SPIN_SPEED] of either sign and no other
\* field; and a step of the loop that starts a spin, by the button or by the
\* space key, does so through start_auto_spin.
C16_SpinStartsOnlyThroughStartAutoSpin ==
    /\ [](StartAutoSpinContract(state) /\ StartAutoSpinEitherSign(state))
    /\ [][state'.is_auto_spinning /\ state'.spin_velocity # state.spin_velocity
          /\ Abs(state'.spin_velocity) >= Abs(state.spin_velocity)
          => SpaceStartsSpin \/ ButtonStartsSpin]_vars

\* The button has just started a spin, backwards at the highest speed,
\* on a wheel turned by hand to 20 degrees before.
C16_ButtonStartedBackwards ==
    /\ pc = "key"
    /\ hold_triggers = 1
    /\ state.is_auto_spinning
    /\ state.spin_velocity = -Deg(MAX_SPIN_SPEED)
    /\ state.spin_button_pressed
    /\ state.rotation_angle = Deg(20)

\* C17 (Spec): is_auto_spinning and is_rotating are never both True in a
\* reachable state.
C17_SpinningExcludesRotating == ~(state.is_auto_spinning /\ state.is_rotating)

\* C18 (Spec): spin_velocity is 0 in every state in which is_auto_spinning
\* is False; and whenever is_auto_spinning is still True after a call of
\* update_auto_spin, the magnitude of spin_velocity is at least
\* MIN_SPIN_VELOCITY.
C18_VelocityMatchesSpinning ==
    /\ ~state.is_auto_spinning => state.spin_velocity = 0
    /\ LET t == update_auto_spin(state)
       IN  /\ t.is_auto_spinning => Abs(t.spin_velocity) >= Deg(MIN_SPIN_VELOCITY)
           /\ ~t.is_auto_spinning => t.spin_velocity = 0

\* A spin started at the highest speed from angle 0 has been stopped by
\* update_auto_spin in its second frame, in which no hand was in view.
C18_StoppedAtTwelve ==
    /\ pc = "key"
    /\ ~state.is_auto_spinning
    /\ state.spin_velocity = 0
    /\ state.rotation_angle = Deg(MAX_SPIN_SPEED) + Deg(MAX_SPIN_SPEED) \div 2
    /\ state.prev_hand_angle = None
    /\ ~state.is_rotating
    /\ ~state.spin_button_pressed

\* t differs from s at most in the number of colours and the palette.
SameButColors(t, s) ==
    [t EXCEPT !.num_colors = s.num_colors, !.colors = s.colors] = s

\* increase_colors and decrease_colors on s: no-ops at MAX_COLORS and at
\* MIN_COLORS, a step of one strictly inside the bounds, and nothing but the
\* colours changed.
ColorStepContract(s) ==
    LET up == increase_colors(s)
        down == decrease_colors(s)
    IN  /\ s.num_colors = MAX_COLORS => up = s
        /\ s.num_colors = MIN_COLORS => down = s
        /\ MIN_COLORS < s.num_colors /\ s.num_colors < MAX_COLORS =>
               /\ up.num_colors = s.num_colors + 1
               /\ down.num_colors = s.num_colors - 1
        /\ SameButColors(up, s)
        /\ SameButColors(down, s)

\* s with the wheel turned, in a spin the held button started.
MidSpin(s) ==
    [s EXCEPT !.rotation_angle = Deg(90),
              !.is_auto_spinning = TRUE,
              !.spin_velocity = -Deg(MAX_SPIN_SPEED),
              !.spin_button_hovered = TRUE,
              !.spin_button_pressed = TRUE]

\* C19 (SpecColors): increase_colors at MAX_COLORS and decrease_colors at
\* MIN_COLORS change nothing; strictly inside the bounds they change
\* num_colors by exactly +1 and -1; neither changes rotation_angle, the spin
\* state or the button state.  Stated of the two methods on every state of
\* the specification, taken as it is and in the middle of a spin, and of
\* the steps that call them.
C19_ColorStepsAtTheBounds ==
    /\ [](ColorStepContract(state) /\ ColorStepContract(MidSpin(state)))
    /\ [][/\ call' = Some([method |-> "increase_colors"]) =>
                 /\ state.num_colors = MAX_COLORS => state' = state
                 /\ MIN_COLORS < state.num_colors /\ state.num_colors < MAX_COLORS
                        => state'.num_colors = state.num_colors + 1
                 /\ SameButColors(state', state)
          /\ call' = Some([method |-> "decrease_colors"]) =>
                 /\ state.num_colors = MIN_COLORS => state' = state
                 /\ MIN_COLORS < state.num_colors /\ state.num_colors < MAX_COLORS
                        => state'.num_colors = state.num_colors - 1
                 /\ SameButColors(state', state)]_vars

\* decrease_colors has been called and the wheel has MIN_COLORS colours,
\* from which a further decrease_colors changes nothing.
C19_DecreasedToTheMinimum ==
    /\ call = Some([method |-> "decrease_colors"])
    /\ state.num_colors = MIN_COLORS
    /\ Len(state.colors) = MIN_COLORS
    /\ decrease_colors(state) = state
    /\ increase_colors(state).num_colors = MIN_COLORS + 1

\* check_button_interaction on s for a hand whose index fingertip is where
\* get_index_finger_position puts it: without a rectangle it returns False
\* and leaves s as it is; outside the rectangle it leaves spin_button_hovered
\* False and spin_button_pressed False when s does not spin and as it was
\* when s spins; inside the rectangle without a pinch it leaves
\* spin_button_hovered True and spin_button_pressed as it was and returns
\* False.
ButtonContract(s, hand) ==
    \A p \in {get_index_finger_position(hand, FrameWidth, FrameHeight)} :
    \A b \in {check_button_interaction(s, hand, p.x, p.y)} :
        IF s.spin_button_rect = None
        THEN ~b.result /\ b.state = s
        ELSE IF ~InButton(The(s.spin_button_rect), p.x, p.y)
        THEN /\ ~b.state.spin_button_hovered
             /\ b.state.spin_button_pressed =
                    (s.is_auto_spinning /\ s.spin_button_pressed)
        ELSE ~is_pinching(hand) =>
                 /\ b.state.spin_button_hovered
                 /\ ~b.result
                 /\ b.state.spin_button_pressed = s.spin_button_pressed

\* C20 (Spec): check_button_interaction with the fingertip outside the
\* rectangle sets spin_button_hovered False and clears spin_button_pressed
\* if and only if the wheel is not auto-spinning; with no rectangle set it
\* returns False and changes nothing; with the fingertip inside and no pinch
\* it sets spin_button_hovered True, returns False and leaves
\* spin_button_pressed unchanged.  Stated of the call on every reachable
\* state and, before a frame, on the state the frame calls it on.
C20_ButtonInteractionCases ==
    \A hand \in Hands :
        /\ ButtonContract(state, hand)
        /\ pc = "frame" =>
               ButtonContract(FrameHead(state, FrameWidth, FrameHeight), hand)

\* In a frame of a spin the button started the hand is at the wheel, off
\* the button: the button is not hovered and is still pressed.
C20_OffTheButtonDuringSpin ==
    /\ pc = "key"
    /\ hold_triggers = 0
    /\ state.is_auto_spinning
    /\ state.hand_near_wheel
    /\ ~state.spin_button_hovered
    /\ state.spin_button_pressed
    /\ state.spin_velocity = -(Deg(MAX_SPIN_SPEED) \div 2)

\* The angle p lies in [from, to) taken modulo turn; to - from is at most a
\* turn and from is in [0, 2 * turn).
InArc(from, to, p, turn) ==
    \E k \in -1..2 : from <= p + k * turn /\ p + k * turn < to

\* The pointer's angle lies in segment i's range
\* [i * 360 / n + rotation_angle, (i + 1) * 360 / n + rotation_angle)
\* taken modulo 360 (every term multiplied by n, in exact arithmetic).
PointerInSegment(i, n, rotation_angle) ==
    InArc(i * Deg(360) + n * rotation_angle,
          (i + 1) * Deg(360) + n * rotation_angle,
          n * Deg(pointer_position), n * Deg(360))

\* C21 (SpecRender): for every rotation_angle in [0, 360) and every number
\* of colours in bounds, the index _get_selected_color computes is the one
\* segment whose range [i * angle_per_segment + rotation_angle,
\* (i + 1) * angle_per_segment + rotation_angle), taken modulo 360, contains
\* the pointer's angle 270.
C21_SelectedSegmentIsUnderThePointer ==
    call # None =>
        \A i \in 0..(state.num_colors - 1) :
            (i = The(call).selected_color_index)
                <=> PointerInSegment(i, state.num_colors, state.rotation_angle)

\* C22 (Spec): at the end of every frame the loop processed
\* spin_button_pressed implies is_auto_spinning, and so it is in every
\* state of the loop; the button state handed to draw_spin_button in a
\* frame never has is_pressed True with is_spinning False.
C22_PressedOnlyWhileSpinning ==
    /\ state.spin_button_pressed => state.is_auto_spinning
    /\ pc = "frame" =>
           LET button == get_button_state(FrameHead(state, FrameWidth, FrameHeight))
           IN  button.is_pressed => button.is_spinning

\* The button started a spin from angle 0, the pinch was held on it, the
\* spin's last update_auto_spin released the button at 12 degrees, and the
\* held pinch set it again in that frame, with a new spin.
C22_ReleasedAndSetAgain ==
    /\ pc = "key"
    /\ hold_triggers = 2
    /\ state.spin_button_pressed
    /\ state.is_auto_spinning
    /\ state.rotation_angle = Deg(MAX_SPIN_SPEED) + Deg(MAX_SPIN_SPEED) \div 2
    /\ Abs(state.spin_velocity) = Deg(MIN_SPIN_SPEED)

\* t spins as s does: is_auto_spinning and spin_velocity are those of s.
SameSpin(t, s) ==
    /\ t.is_auto_spinning = s.is_auto_spinning
    /\ t.spin_velocity = s.spin_velocity

\* spin_velocity of s times the decay factor.
Decayed(s) == FMulRat(s.spin_velocity, SpinDecelNum, SpinDecelDen)

\* On a spinning s: update_auto_spin stops the spin exactly when the decayed
\* magnitude is below the threshold and otherwise leaves the decayed
\* velocity; the resets, the colour-count changes and every key leave the
\* spin and its velocity as they are.
SpinUntouched(s) ==
    s.is_auto_spinning =>
        /\ LET t == update_auto_spin(s)
           IN  IF Abs(Decayed(s)) < Deg(MIN_SPIN_VELOCITY)
               THEN ~t.is_auto_spinning
               ELSE t.is_auto_spinning /\ t.spin_velocity = Decayed(s)
        /\ SameSpin(reset_manual_rotation(s), s)
        /\ SameSpin(reset_hand_state(s), s)
        /\ SameSpin(increase_colors(s), s)
        /\ SameSpin(decrease_colors(s), s)
        /\ \A key \in Keys, d \in Draws :
               SameSpin(handle_key_press(s, key, d.speed, d.negate), s)

\* C23 (Spec): a running auto-spin is not interrupted or altered.
\* is_auto_spinning goes from True to False only in update_auto_spin, when
\* the decayed magnitude of spin_velocity is below the threshold; while the
\* wheel spins spin_velocity changes only by the decay factor; no frame with
\* a hand, frame without a hand, reset_manual_rotation, reset_hand_state,
\* change of the number of colours or key stops the spin or changes its
\* velocity.  A frame whose update_auto_spin ended the spin may start a new
\* one by the button.
C23_SpinRunsUndisturbed ==
    /\ [](SpinUntouched(state))
    /\ [][state.is_auto_spinning =>
              IF pc = "frame" /\ pc' # "done"
              THEN IF Abs(Decayed(state)) < Deg(MIN_SPIN_VELOCITY)
                   THEN \/ ~state'.is_auto_spinning /\ state'.spin_velocity = 0
                        \/ ButtonStartsSpin
                   ELSE /\ state'.is_auto_spinning
                        /\ state'.spin_velocity = Decayed(state)
              ELSE SameSpin(state', state)]_vars

\* One frame into a spin backwards at the highest speed, begun on a wheel
\* turned by hand: the hand was lost during the spin, the number of colours
\* was taken down by a key, and the spin goes on at the decayed velocity.
C23_StillSpinningAfterLossAndKey ==
    /\ pc = "frame"
    /\ state.is_auto_spinning
    /\ state.spin_velocity = -(Deg(MAX_SPIN_SPEED) \div 2)
    /\ state.rotation_angle = Deg(360 - MAX_SPIN_SPEED)
    /\ state.num_colors = DEFAULT_NUM_COLORS - 1
    /\ state.is_rotating
    /\ state.prev_hand_angle = None
    /\ ~state.hand_near_wheel
    /\ ~state.spin_button_pressed

==========================================================================
